---------------------------- MODULE Spec2Model ----------------------------
(***************************************************************************)
(* Model of the command line interface of pmix.ppp                         *)
(* (src/pmix/ppp/interfaces/cli.py): the argument parser built by          *)
(* _add_arguments, and cli(), which parses the command line, validates the *)
(* highlight/format combination, calls run() once and reports an           *)
(* OdkException on the error stream.                                       *)
(*                                                                         *)
(* One behaviour of the model is one invocation of cli().  The command     *)
(* line is chosen in Init; pc is cli()'s position.                         *)
(***************************************************************************)
EXTENDS Integers, Sequences, FiniteSets, TLC

(***************************************************************************)
(* Bounds of the model.                                                    *)
(***************************************************************************)
MaxFiles == 2
MaxMessages == 2
MaxLanguages == 1

(***************************************************************************)
(* Values.                                                                 *)
(***************************************************************************)
\* Python's None: the value of an option without default that was not given.
None == "<None>"
\* An option (or the positional) that does not occur on the command line.
Absent == "<absent>"
NoArgs == [parsed |-> FALSE]
NoException == [kind |-> "<none>", msg |-> ""]

Files == {"form" \o ToString(i) \o ".xlsx" : i \in 1..MaxFiles}
OutPaths == {"out.html"}
Languages == {"Lang" \o ToString(i) : i \in 1..MaxLanguages}
Messages == {"message " \o ToString(i) : i \in 1..MaxMessages}

\* dest names of the six store_true toggles of _preset_optional_fields.
ToggleOption ==
    {"input_replacement", "exclusion", "hr_relevant",
     "hr_constraint", "no_constraint", "text_replacements"}

\* dest names of the two store_true flags of _cli_only_fields.
CliOnlyFlags == {"debug", "highlight"}

\* choices= and default= of -p/--preset.
PRESET_CHOICES == {"public", "internal", "developer", "minimal"}
PRESET_DEFAULT == "developer"

\* pmix.ppp.definitions.constants.SUPPORTED_FORMATS, the choices= of -f/--format.
SUPPORTED_FORMATS == {"html", "text"}
FORMAT_DEFAULT == "html"

\* Values a user may type after -p and -f: the accepted ones and others.
PresetWords == PRESET_CHOICES \cup {"custom"}
FormatWords == SUPPORTED_FORMATS \cup {"pdf"}

\* Classes of the exceptions run() may raise.  OdkException is the class
\* cli() catches; the others are the Exception subclasses of pmix/error.py.
OdkExceptionKinds == {"OdkException"}
OtherExceptionKinds == {"XlsformError", "OdkformError"}
ExceptionKinds == OdkExceptionKinds \cup OtherExceptionKinds

VARIABLES
    pc,          \* position in cli()
    argv,        \* the command line
    args,        \* the Namespace parse_args returned, or NoArgs
    runCalls,    \* keyword arguments of every call of run(), in order
    runExc,      \* the exception run() raised, or NoException
    stderr,      \* text written to sys.stderr
    propagated,  \* the exception that left cli(), or NoException
    exitStatus   \* status of the SystemExit argparse raised, or -1

vars == <<pc, argv, args, runCalls, runExc, stderr, propagated, exitStatus>>

(***************************************************************************)
(* The command lines.                                                      *)
(***************************************************************************)
CommandLines ==
    [xlsxfile : Files \cup {Absent},
     preset   : PresetWords \cup {Absent},
     language : Languages \cup {Absent},
     format   : FormatWords \cup {Absent},
     outpath  : OutPaths \cup {Absent},
     flags    : SUBSET (ToggleOption \cup CliOnlyFlags)]

(***************************************************************************)
(* ArgumentParser.parse_args over the arguments _add_arguments declares.   *)
(***************************************************************************)
\* Mutant: -p/--preset declared without choices=.
ParseOkAnyPreset(a) ==
    /\ a.xlsxfile # Absent
    /\ a.format = Absent \/ a.format \in SUPPORTED_FORMATS

\* parse_args succeeds: the positional is there and every value given to an
\* option with choices= is one of the choices.
ParseOk(a) ==
    /\ a.xlsxfile # Absent
    /\ a.preset = Absent \/ a.preset \in PRESET_CHOICES
    /\ a.format = Absent \/ a.format \in SUPPORTED_FORMATS

\* Mutant: the default the comment above the argument names ('public').
ParsePresetPublicDefault(a) == IF a.preset = Absent THEN "public" ELSE a.preset

\* add_argument('-p', '--preset', choices=..., default='developer').
ParsePreset(a) == IF a.preset = Absent THEN PRESET_DEFAULT ELSE a.preset

\* add_argument('-f', '--format', choices=SUPPORTED_FORMATS, default='html').
ParseFormat(a) == IF a.format = Absent THEN FORMAT_DEFAULT ELSE a.format

\* An option without default: None unless given.
ParseOptional(v) == IF v = Absent THEN None ELSE v

\* action='store_true': True iff the flag occurs.
StoreTrue(a, dest) == dest \in a.flags

parse_args(a) ==
    [parsed            |-> TRUE,
     xlsxfile          |-> a.xlsxfile,
     preset            |-> ParsePreset(a),
     language          |-> ParseOptional(a.language),
     format            |-> ParseFormat(a),
     outpath           |-> ParseOptional(a.outpath),
     debug             |-> StoreTrue(a, "debug"),
     highlight         |-> StoreTrue(a, "highlight"),
     input_replacement |-> StoreTrue(a, "input_replacement"),
     exclusion         |-> StoreTrue(a, "exclusion"),
     hr_relevant       |-> StoreTrue(a, "hr_relevant"),
     hr_constraint     |-> StoreTrue(a, "hr_constraint"),
     no_constraint     |-> StoreTrue(a, "no_constraint"),
     text_replacements |-> StoreTrue(a, "text_replacements")]

\* What argparse writes to stderr before SystemExit(2).
UsageError == "usage: error\n"
USAGE_EXIT_STATUS == 2

(***************************************************************************)
(* cli(): the check of highlight against the format.                       *)
(***************************************************************************)
\* Python truthiness of an optional string.
Truthy(s) == s # None /\ s # ""

\* if args.highlight and args.format and args.format not in SUPPORTED_FORMATS
HighlightRejected(ns) ==
    ns.highlight /\ Truthy(ns.format) /\ ns.format \notin SUPPORTED_FORMATS

HighlightMessage ==
    "Can only specify highlighting when using the following formats: 'html', 'pdf'."

(***************************************************************************)
(* cli(): the call of run().                                               *)
(***************************************************************************)
\* Mutant: every parsed store_true value is passed on as well.
RunKwargsWithToggles(ns) ==
    [in_file           |-> ns.xlsxfile,
     language          |-> ns.language,
     output_format     |-> ns.format,
     out_file          |-> ns.outpath,
     debug             |-> ns.debug,
     highlight         |-> ns.highlight,
     preset            |-> ns.preset,
     input_replacement |-> ns.input_replacement,
     exclusion         |-> ns.exclusion,
     hr_relevant       |-> ns.hr_relevant,
     hr_constraint     |-> ns.hr_constraint,
     no_constraint     |-> ns.no_constraint,
     text_replacements |-> ns.text_replacements]

\* Mutant: debug and highlight change places.
RunKwargsSwapped(ns) ==
    [in_file       |-> ns.xlsxfile,
     language      |-> ns.language,
     output_format |-> ns.format,
     out_file      |-> ns.outpath,
     debug         |-> ns.highlight,
     highlight     |-> ns.debug,
     preset        |-> ns.preset]

RunKwargs(ns) ==
    [in_file       |-> ns.xlsxfile,
     language      |-> ns.language,
     output_format |-> ns.format,
     out_file      |-> ns.outpath,
     debug         |-> ns.debug,
     highlight     |-> ns.highlight,
     preset        |-> ns.preset]

(***************************************************************************)
(* The receiver of the call: the preset table and the resolution of the    *)
(* toggles from the preset and the toggle keyword arguments it is given.   *)
(***************************************************************************)
PresetDefaults ==
    [public    |-> [input_replacement |-> TRUE,  exclusion     |-> TRUE,
                    hr_relevant       |-> TRUE,  hr_constraint |-> FALSE,
                    no_constraint     |-> FALSE, text_replacements |-> TRUE],
     internal  |-> [input_replacement |-> FALSE, exclusion     |-> FALSE,
                    hr_relevant       |-> TRUE,  hr_constraint |-> FALSE,
                    no_constraint     |-> FALSE, text_replacements |-> TRUE],
     developer |-> [input_replacement |-> FALSE, exclusion     |-> FALSE,
                    hr_relevant       |-> FALSE, hr_constraint |-> FALSE,
                    no_constraint     |-> FALSE, text_replacements |-> FALSE],
     minimal   |-> [input_replacement |-> FALSE, exclusion     |-> FALSE,
                    hr_relevant       |-> FALSE, hr_constraint |-> FALSE,
                    no_constraint     |-> FALSE, text_replacements |-> FALSE]]

\* The toggle overrides a call carries: its toggle keyword arguments.
Overrides(kwargs) ==
    [t \in (DOMAIN kwargs) \cap ToggleOption |-> kwargs[t]]

\* resolve(preset, overrides): the preset's row with the overrides applied.
ResolveConfig(preset, overrides) ==
    [t \in ToggleOption |->
        IF t \in DOMAIN overrides THEN overrides[t] ELSE PresetDefaults[preset][t]]

\* resolve(preset, overrides): custom iff an override changed a value.
ResolveProvenance(preset, overrides) ==
    IF ResolveConfig(preset, overrides) # PresetDefaults[preset]
    THEN "custom" ELSE preset

EffectiveConfig(kwargs) == ResolveConfig(kwargs.preset, Overrides(kwargs))
Provenance(kwargs) == ResolveProvenance(kwargs.preset, Overrides(kwargs))

(***************************************************************************)
(* cli(): the except clause.                                               *)
(***************************************************************************)
\* Mutant: except Exception.
CatchesAll(kind) == kind \in ExceptionKinds

\* except OdkException as err
Catches(kind) == kind \in OdkExceptionKinds

\* str(err) of an exception constructed with one message.
Str(err) == err.msg

\* Mutant: the arguments of format() in the other order.
FormatErrorSwapped(file, err) ==
    "An error occurred while attempting to convert '" \o Str(err) \o "':\n" \o file

\* 'An error occurred while attempting to convert \'{}\':\n{}'.format(file, err)
FormatError(file, err) ==
    "An error occurred while attempting to convert '" \o file \o "':\n" \o Str(err)

\* print(text, file=stderr): the text and the line terminator.
PrintTo(stream, text) == stream \o text \o "\n"

(***************************************************************************)
(* Initial state.                                                          *)
(***************************************************************************)
Init ==
    /\ pc = "parse_args"
    /\ argv \in CommandLines
    /\ args = NoArgs
    /\ runCalls = <<>>
    /\ runExc = NoException
    /\ stderr = ""
    /\ propagated = NoException
    /\ exitStatus = -1

(***************************************************************************)
(* The steps of cli().                                                     *)
(***************************************************************************)
\* args = parser.parse_args()
ParseArgs ==
    /\ pc = "parse_args"
    /\ IF ParseOk(argv)
       THEN /\ args' = parse_args(argv)
            /\ pc' = "validate"
            /\ UNCHANGED <<stderr, exitStatus>>
       ELSE /\ stderr' = stderr \o UsageError
            /\ exitStatus' = USAGE_EXIT_STATUS
            /\ pc' = "done"
            /\ UNCHANGED args
    /\ UNCHANGED <<argv, runCalls, runExc, propagated>>

\* if args.highlight and ...: raise OdkFormError(msg)
Validate ==
    /\ pc = "validate"
    /\ IF HighlightRejected(args)
       THEN /\ propagated' = [kind |-> "OdkFormError", msg |-> HighlightMessage]
            /\ pc' = "done"
       ELSE /\ pc' = "run"
            /\ UNCHANGED propagated
    /\ UNCHANGED <<argv, args, runCalls, runExc, stderr, exitStatus>>

\* try: run(in_file=..., ...)
CallRun ==
    /\ pc = "run"
    /\ runCalls' = Append(runCalls, RunKwargs(args))
    /\ pc' = "running"
    /\ UNCHANGED <<argv, args, runExc, stderr, propagated, exitStatus>>

\* run() returns None.
RunReturns ==
    /\ pc = "running"
    /\ pc' = "done"
    /\ UNCHANGED <<argv, args, runCalls, runExc, stderr, propagated, exitStatus>>

\* run() raises.
RunRaises ==
    /\ pc = "running"
    /\ \E k \in ExceptionKinds, m \in Messages :
          runExc' = [kind |-> k, msg |-> m]
    /\ pc' = "except"
    /\ UNCHANGED <<argv, args, runCalls, stderr, propagated, exitStatus>>

\* Mutant: the handler calls run() again after reporting.
HandleExceptionRetry ==
    /\ pc = "except"
    /\ IF Catches(runExc.kind)
       THEN /\ stderr' = PrintTo(stderr, FormatError(args.xlsxfile, runExc))
            /\ pc' = "run"
            /\ UNCHANGED propagated
       ELSE /\ propagated' = runExc
            /\ pc' = "done"
            /\ UNCHANGED stderr
    /\ UNCHANGED <<argv, args, runCalls, runExc, exitStatus>>

\* except OdkException as err: format, print to stderr; anything else leaves
\* cli().
HandleException ==
    /\ pc = "except"
    /\ IF Catches(runExc.kind)
       THEN /\ stderr' = PrintTo(stderr, FormatError(args.xlsxfile, runExc))
            /\ UNCHANGED propagated
       ELSE /\ propagated' = runExc
            /\ UNCHANGED stderr
    /\ pc' = "done"
    /\ UNCHANGED <<argv, args, runCalls, runExc, exitStatus>>

Next ==
    \/ ParseArgs
    \/ Validate
    \/ CallRun
    \/ RunReturns
    \/ RunRaises
    \/ HandleException

Spec == Init /\ [][Next]_vars

(***************************************************************************)
(* Properties.                                                             *)
(***************************************************************************)
RunCalled == Len(runCalls) >= 1
TheCall == runCalls[1]

\* The toggle flags on the command line, and the preset it selects.
SuppliedToggles == argv.flags \cap ToggleOption
SelectedPreset == IF argv.preset = Absent THEN "developer" ELSE argv.preset

\* The formats the highlight message names as supporting visual layout.
VisualFormats == {"html", "pdf"}

\* C1: whenever highlight is true and the output format does not support
\* visual layout (format 'text'), a configuration error is raised and run is
\* never invoked.
C1_HighlightNeedsVisualFormat ==
    (args.parsed /\ args.highlight /\ args.format \notin VisualFormats)
        => /\ ~RunCalled
           /\ pc = "done" => propagated.kind = "OdkFormError"

\* C2 as stated: no exception raised by run, whatever its kind, leaves cli().
C2_NoRunExceptionPropagates ==
    (pc = "done" /\ runExc # NoException) => propagated = NoException

\* C2 as amended: an exception raised by run leaves cli() unless it is an
\* OdkException; an OdkException is caught and cli() finishes without raising,
\* an exception of any other class propagates unchanged.
C2_OnlyOdkExceptionIsCaught ==
    (pc = "done" /\ runExc # NoException)
        => /\ runExc.kind = "OdkException" => propagated = NoException
           /\ runExc.kind # "OdkException" => propagated = runExc

C2_Witness ==
    /\ pc = "done"
    /\ runExc.kind = "OdkException"
    /\ propagated = NoException

\* C3: every toggle flag the user supplies is true in the effective
\* configuration handed to the Renderer, every other toggle is at the selected
\* preset's default.
C3_SuppliedTogglesTakeEffect ==
    RunCalled =>
        \A t \in ToggleOption :
            EffectiveConfig(TheCall)[t] =
                (IF t \in SuppliedToggles THEN TRUE
                                          ELSE PresetDefaults[SelectedPreset][t])

C5_ProvenanceCustomIffChanged ==
    RunCalled =>
        IF \E t \in SuppliedToggles : PresetDefaults[SelectedPreset][t] # TRUE
        THEN Provenance(TheCall) = "custom"
        ELSE Provenance(TheCall) = SelectedPreset

\* C6: when run raises a conversion error with message m while converting
\* file f, the error stream holds the text "An error occurred while attempting
\* to convert 'f':", a newline and m, written once (as one line of print).
C6_ErrorMessageWrittenOnce ==
    /\ (pc = "done" /\ runExc.kind = "OdkException")
          => stderr = "An error occurred while attempting to convert '"
                        \o argv.xlsxfile \o "':\n" \o runExc.msg \o "\n"
    /\ pc \in {"running", "except"} => stderr = ""

C6_Witness ==
    /\ pc = "done"
    /\ runExc = [kind |-> "OdkException", msg |-> "message 1"]
    /\ argv.xlsxfile = "form1.xlsx"
    /\ stderr # ""

\* C7: whatever toggle flags are supplied, a toggle whose preset default is
\* true is true in the effective configuration.
C7_TrueDefaultsStayTrue ==
    RunCalled =>
        \A t \in ToggleOption :
            PresetDefaults[SelectedPreset][t] => EffectiveConfig(TheCall)[t]

C7_Witness ==
    /\ RunCalled
    /\ argv.preset = "public"
    /\ SuppliedToggles = {"hr_constraint", "no_constraint"}
    /\ EffectiveConfig(TheCall)["input_replacement"]

C9_RunInvokedOnce ==
    /\ Len(runCalls) <= 1
    /\ RunCalled => args.parsed /\ ~HighlightRejected(args) /\ propagated.kind # "OdkFormError"
    /\ (pc = "done" /\ args.parsed /\ propagated.kind # "OdkFormError")
          => Len(runCalls) = 1
    /\ (pc = "done" /\ ~args.parsed) => Len(runCalls) = 0

C9_Witness ==
    /\ pc = "done"
    /\ Len(runCalls) = 1
    /\ runExc # NoException

\* C10: run receives in_file, language, output_format, out_file, debug and
\* highlight equal to the parsed values of xlsxfile, -l, -f, -o, -d and -H,
\* with language unset, format 'html', outpath unset, debug false and
\* highlight false when the option is not given.
C10_SettingsPassedUnchanged ==
    RunCalled =>
        /\ TheCall.in_file = argv.xlsxfile
        /\ TheCall.language = (IF argv.language = Absent THEN None ELSE argv.language)
        /\ TheCall.output_format = (IF argv.format = Absent THEN "html" ELSE argv.format)
        /\ TheCall.out_file = (IF argv.outpath = Absent THEN None ELSE argv.outpath)
        /\ TheCall.debug = ("debug" \in argv.flags)
        /\ TheCall.highlight = ("highlight" \in argv.flags)

C10_Witness ==
    /\ RunCalled
    /\ argv.language = Absent /\ argv.format = Absent /\ argv.outpath = Absent
    /\ argv.flags = {"debug"}
    /\ TheCall.language = None /\ TheCall.output_format = "html"
    /\ TheCall.out_file = None /\ TheCall.debug /\ ~TheCall.highlight

=============================================================================
